---- MODULE Spec2Model ----
(***************************************************************************)
(* Provider selection and failover of the uni-api gateway (src/main.py).   *)
(*                                                                         *)
(* Every inbound request is an asyncio task.  A task runs without          *)
(* interruption until it awaits the outbound call client.post(...) of      *)
(* fetch_response; a streaming request never awaits inside the sweep,      *)
(* because process_request hands back a StreamingResponse wrapped around   *)
(* a generator that has not started yet.  The cursor last_provider_index   *)
(* of the single ModelRequestHandler is shared by all tasks.               *)
(***************************************************************************)
EXTENDS Integers, Sequences, FiniteSets, TLC

\* ------------------------------------------------------------------ bounds
MaxProviders == 3      \* longest registry (api.yaml) explored
MaxMessages  == 2      \* most messages in a request handed to the translation
MaxParts     == 3      \* most content parts in such a request, all messages together

\* ------------------------------------------------------------ input sets
\* the requests of one behaviour, each served by its own asyncio task and
\* numbered in the order they arrive; they may overlap in any way
Tasks         == {1, 2}
Models        == {"gpt-x", "gpt-y"}          \* names a provider may list
RequestModels == Models
Tokens        == {"sk-user1", "sk-other"}
api_keys_db   == {"sk-user1"}

\* all sequences over S of length 0..n
RECURSIVE SeqsUpTo(_, _)
SeqsUpTo(S, n) ==
  IF n = 0 THEN {<<>>}
  ELSE LET shorter == SeqsUpTo(S, n - 1)
       IN  shorter \cup {Append(s, e) : s \in {q \in shorter : Len(q) = n - 1}, e \in S}

\* a registry entry, reduced to the field the failover reads
ProviderEntries == [model : SUBSET Models]
Registries      == SeqsUpTo(ProviderEntries, MaxProviders)

\* what one outbound call to a provider can do: the connection fails
\* (conn = FALSE), or an HTTP response arrives with a status and a body that
\* is or is not JSON
Replies ==
  {[conn |-> FALSE, status |-> 0, json |-> FALSE]} \cup
  {[conn |-> TRUE, status |-> s, json |-> j] : s \in {200, 500}, j \in BOOLEAN}

\* the unified request, reduced to the fields the failover reads, together
\* with the USE_ROUND_ROBIN toggle the handler reads for it
Requests == [model : RequestModels, stream : BOOLEAN, rr : BOOLEAN]

\* ------------------------------------------------------------ outcomes
NoResult           == [kind |-> "none", code |-> 0, from |-> 0, status |-> 0]
Forbidden          == [kind |-> "HTTPException", code |-> 403, from |-> 0, status |-> 0]
NotFound           == [kind |-> "HTTPException", code |-> 404, from |-> 0, status |-> 0]
AllProvidersFailed == [kind |-> "HTTPException", code |-> 500, from |-> 0, status |-> 0]
\* the parsed body of provider p (registry position), answered with status s
JsonBody(p, s)       == [kind |-> "json", code |-> 200, from |-> p, status |-> s]
\* an IndexError of providers[...] would leave try_all_providers unhandled
IndexError         == [kind |-> "IndexError", code |-> 500, from |-> 0, status |-> 0]
\* a StreamingResponse over the not yet started stream of provider p
StreamingResponse(p) == [kind |-> "stream", code |-> 200, from |-> p, status |-> 0]

NoRequest == [model |-> "gpt-x", stream |-> FALSE, rr |-> FALSE]

VARIABLES
  config,               \* the registry, a sequence of provider entries
  last_provider_index,  \* ModelRequestHandler.last_provider_index
  pc,                   \* task -> "idle" | "await" | "relay" | "done"
  req,                  \* task -> the request it serves
  token,                \* task -> the bearer token it came with ("" before it arrives)
  providers,            \* task -> matching providers (registry positions)
  start_index,          \* task -> local start_index of try_all_providers
  i,                    \* task -> loop variable i of try_all_providers
  attempts,             \* task -> the provider attempts of its sweep so far
  result,               \* task -> what the endpoint returned or raised
  relay,                \* task -> what the relayed stream carried
  solo,                 \* task -> no other sweep overlapped its sweep (history)
  pred,                 \* task -> the task whose sweep ended just before its own
                        \*         began, 0 if none or if sweeps overlapped (history)
  lastDone,             \* the task whose sweep ended most recently, 0 if none (history)
  lastWriteN,           \* num_providers of the sweep that wrote the cursor last (history)
  body,                 \* JSON body of the request process_request translates
  provider_name,        \* provider['provider'] of the provider it is translated for
  payload               \* the payload process_request built from them

vars == <<config, last_provider_index, pc, req, token, providers, start_index, i,
          attempts, result, relay, solo, pred, lastDone, lastWriteN,
          body, provider_name, payload>>

\* ------------------------------------------------------ pure code pieces
\* [provider for provider in config if model_name in provider['model']]
RECURSIVE MatchFrom(_, _, _)
MatchFrom(cfg, model_name, k) ==
  IF k > Len(cfg) THEN <<>>
  ELSE IF model_name \in cfg[k].model
       THEN <<k>> \o MatchFrom(cfg, model_name, k + 1)
       ELSE MatchFrom(cfg, model_name, k + 1)

get_matching_providers_all(cfg, model_name) == [k \in 1..Len(cfg) |-> k]

get_matching_providers(cfg, model_name) == MatchFrom(cfg, model_name, 1)

\* token not in api_keys_db -> HTTPException(403)
verify_api_key_any(tok) == TRUE

verify_api_key(tok) == tok \in api_keys_db

\* start_index = self.last_provider_index if use_round_robin else 0
start_index_of_zero(use_round_robin, lpi) == 0

start_index_of(use_round_robin, lpi) == IF use_round_robin THEN lpi ELSE 0

\* for i in range(num_providers)
in_range_wrap(k, num_providers) == k < num_providers + 1

in_range_short(k, num_providers) == k < num_providers - 1

in_range(k, num_providers) == k < num_providers

\* the value written to self.last_provider_index in iteration k
next_index_shifted(use_round_robin, start, k, num_providers) ==
  IF use_round_robin THEN (start + k) % num_providers ELSE (k + 1) % num_providers

next_index_reverse(use_round_robin, start, k, num_providers) ==
  IF use_round_robin THEN (start + k) % num_providers ELSE num_providers - 1 - k

next_index_modplus(use_round_robin, start, k, num_providers) ==
  IF use_round_robin THEN (start + k) % (num_providers + 1) ELSE k

next_index_nomod(use_round_robin, start, k, num_providers) ==
  IF use_round_robin THEN start + k ELSE k

next_index_advance(use_round_robin, start, k, num_providers) ==
  IF use_round_robin THEN (start + 1 + k) % num_providers ELSE k

next_index(use_round_robin, start, k, num_providers) ==
  IF use_round_robin THEN (start + k) % num_providers ELSE k

\* fetch_response: client.post raises on a connection failure, response.json()
\* raises on a body that is not JSON; the status is never looked at
fetch_response_raises(reply) == ~reply.conn \/ ~reply.json

\* try/except around process_request: return the response, or continue
after_attempt_swallow(raised) == "continue"

after_attempt_inverted(raised) == IF raised THEN "return" ELSE "continue"

after_attempt(raised) == IF raised THEN "continue" ELSE "return"

\* ---------------------------------------------- request and payload shapes
\* a JSON member as it arrives: left out, null, or given with a value
RawBools == {[kind |-> "absent", val |-> FALSE], [kind |-> "null", val |-> FALSE],
             [kind |-> "value", val |-> FALSE], [kind |-> "value", val |-> TRUE]}
RawInts  == {[kind |-> "absent", val |-> 0], [kind |-> "null", val |-> 0],
             [kind |-> "value", val |-> 5]}

\* an Optional field of RequestModel, or a key of the payload dict: None (key
\* missing) or a value
None(v0) == [some |-> FALSE, val |-> v0]
Some(v)  == [some |-> TRUE, val |-> v]

\* Message.content: a str, or a list of ContentItem
StrContent(x)   == [kind |-> "str", str |-> x, parts |-> <<>>]
ListContent(ps) == [kind |-> "list", str |-> "", parts |-> ps]

ContentItems  == {[type |-> "text", text |-> "a"], [type |-> "text", text |-> "b"],
                  [type |-> "image", text |-> "x"]}
Roles         == {"user", "assistant"}
ProviderNames == {"openai", "anthropic"}

\* messages with at most budget content parts
MessagesWithin(budget) ==
  {[role |-> r, content |-> c] :
     r \in Roles,
     c \in {StrContent("hi")} \cup {ListContent(ps) : ps \in SeqsUpTo(ContentItems, budget)}}

\* message lists of at most len messages and budget content parts
RECURSIVE MessageLists(_, _)
MessageLists(len, budget) ==
  IF len = 0 THEN {<<>>}
  ELSE {<<>>} \cup
       UNION {{<<m>> \o rest :
                 rest \in MessageLists(len - 1, budget - Len(m.content.parts))} :
              m \in MessagesWithin(budget)}

NoBody == [model |-> "gpt-x", messages |-> <<>>,
           logprobs |-> [kind |-> "absent", val |-> FALSE],
           top_logprobs |-> [kind |-> "absent", val |-> 0],
           stream |-> [kind |-> "absent", val |-> FALSE],
           include_usage |-> [kind |-> "absent", val |-> FALSE]]

\* request bodies: every message list with the optional members left out, and
\* every combination of the optional members with a short message list
Bodies ==
  {[NoBody EXCEPT !.messages = ms] : ms \in MessageLists(MaxMessages, MaxParts)} \cup
  [model : RequestModels,
   messages : MessageLists(1, 1),
   logprobs : RawBools, top_logprobs : RawInts,
   stream : RawBools, include_usage : RawBools]

NoPayload == [built |-> FALSE, model |-> "", messages |-> <<>>,
              stream |-> None(FALSE), include_usage |-> None(FALSE),
              max_tokens |-> None(0), logprobs |-> None(FALSE),
              top_logprobs |-> None(0)]

\* pydantic fills a member that was left out with the field's default and
\* keeps null as None
field(raw, default) ==
  IF raw.kind = "absent" THEN default
  ELSE IF raw.kind = "null" THEN None(raw.val)
  ELSE Some(raw.val)

\* class RequestModel
parse_request(b) ==
  [model |-> b.model,
   messages |-> b.messages,
   logprobs |-> field(b.logprobs, Some(FALSE)),
   top_logprobs |-> field(b.top_logprobs, None(0)),
   stream |-> field(b.stream, Some(FALSE)),
   include_usage |-> field(b.include_usage, Some(FALSE))]

\* sep.join(texts)
RECURSIVE join(_, _)
join(sep, texts) ==
  IF texts = <<>> THEN ""
  ELSE IF Len(texts) = 1 THEN texts[1]
  ELSE texts[1] \o sep \o join(sep, Tail(texts))

\* [item.text for item in msg.content if item.type == "text"]
RECURSIVE text_items(_)
text_items(parts) ==
  IF parts = <<>> THEN <<>>
  ELSE IF parts[1].type = "text"
       THEN <<parts[1].text>> \o text_items(Tail(parts))
       ELSE text_items(Tail(parts))

RECURSIVE all_items(_)
all_items(parts) ==
  IF parts = <<>> THEN <<>> ELSE <<parts[1].text>> \o all_items(Tail(parts))

\* the content of one translated message
flatten_unfiltered(content) ==
  IF content.kind = "list" THEN join(" ", all_items(content.parts)) ELSE content.str

flatten(content) ==
  IF content.kind = "list" THEN join(" ", text_items(content.parts)) ELSE content.str

\* messages.append({"role": msg.role, "content": content}) for each message
translate_messages(msgs) ==
  [k \in 1..Len(msgs) |-> [role |-> msgs[k].role, content |-> flatten(msgs[k].content)]]

\* the provider-family branch: max_tokens for anthropic, logprobs and
\* top_logprobs (when not None) for the others
family_fields_keep(request, name) ==
  [max_tokens   |-> IF name = "anthropic" THEN Some(1000) ELSE None(0),
   logprobs     |-> IF request.logprobs.some THEN request.logprobs ELSE None(FALSE),
   top_logprobs |-> IF request.top_logprobs.some THEN request.top_logprobs ELSE None(0)]

family_fields(request, name) ==
  IF name = "anthropic"
  THEN [max_tokens |-> Some(1000), logprobs |-> None(FALSE), top_logprobs |-> None(0)]
  ELSE [max_tokens   |-> None(0),
        logprobs     |-> IF request.logprobs.some THEN request.logprobs ELSE None(FALSE),
        top_logprobs |-> IF request.top_logprobs.some THEN request.top_logprobs
                         ELSE None(0)]

\* the payload dict process_request sends
build_payload(request, name) ==
  [built         |-> TRUE,
   model         |-> request.model,
   messages      |-> translate_messages(request.messages),
   stream        |-> IF request.stream.some THEN request.stream ELSE None(FALSE),
   include_usage |-> IF request.include_usage.some THEN request.include_usage
                     ELSE None(FALSE),
   max_tokens    |-> family_fields(request, name).max_tokens,
   logprobs      |-> family_fields(request, name).logprobs,
   top_logprobs  |-> family_fields(request, name).top_logprobs]

\* ------------------------------------------------------------------ state
Init ==
  /\ config \in Registries
  /\ last_provider_index = -1
  /\ pc = [t \in Tasks |-> "idle"]
  /\ req = [t \in Tasks |-> NoRequest]
  /\ token = [t \in Tasks |-> ""]
  /\ providers = [t \in Tasks |-> <<>>]
  /\ start_index = [t \in Tasks |-> 0]
  /\ i = [t \in Tasks |-> 0]
  /\ attempts = [t \in Tasks |-> <<>>]
  /\ result = [t \in Tasks |-> NoResult]
  /\ relay = [t \in Tasks |-> "none"]
  /\ solo = [t \in Tasks |-> FALSE]
  /\ pred = [t \in Tasks |-> 0]
  /\ lastDone = 0
  /\ lastWriteN = 0
  /\ body = NoBody
  /\ provider_name = "openai"
  /\ payload = NoPayload

Sweeping == {t \in Tasks : pc[t] = "await"}

\* requests are numbered in the order they arrive
FreeSlot(t) == pc[t] = "idle" /\ \A u \in Tasks : u < t => pc[u] # "idle"

\* the loop head with the index taken from the shared cursor at every
\* iteration after the first instead of from the local start_index
Iterate_reread(t, k, att) ==
  LET n == Len(providers'[t]) IN
  IF ~in_range(k, n)
  THEN /\ pc' = [pc EXCEPT ![t] = "done"]
       /\ result' = [result EXCEPT ![t] = AllProvidersFailed]
       /\ attempts' = [attempts EXCEPT ![t] = att]
       /\ i' = [i EXCEPT ![t] = k]
       /\ lastDone' = t
       /\ UNCHANGED <<last_provider_index, lastWriteN>>
  ELSE LET idx == IF k > 0 /\ req'[t].rr
                  THEN (last_provider_index + 1) % n
                  ELSE next_index(req'[t].rr, start_index'[t], k, n)
           \* Python indexing: 0..n-1 from the front, -n..-1 from the back
           p   == providers'[t][IF idx < 0 THEN n + idx + 1 ELSE idx + 1]
       IN  /\ last_provider_index' = idx
           /\ lastWriteN' = n
           /\ i' = [i EXCEPT ![t] = k]
           /\ IF idx \notin (0 - n)..(n - 1)
              THEN /\ pc' = [pc EXCEPT ![t] = "done"]
                   /\ attempts' = [attempts EXCEPT ![t] = att]
                   /\ result' = [result EXCEPT ![t] = IndexError]
                   /\ lastDone' = t
              ELSE IF req'[t].stream
              THEN /\ pc' = [pc EXCEPT ![t] = "relay"]
                   /\ attempts' = [attempts EXCEPT ![t] =
                         Append(att, [idx |-> idx, provider |-> p, outcome |-> "returned"])]
                   /\ result' = [result EXCEPT ![t] = StreamingResponse(p)]
                   /\ lastDone' = t
              ELSE /\ pc' = [pc EXCEPT ![t] = "await"]
                   /\ attempts' = [attempts EXCEPT ![t] =
                         Append(att, [idx |-> idx, provider |-> p, outcome |-> "pending"])]
                   /\ UNCHANGED <<result, lastDone>>

\* One pass through the head of the loop of try_all_providers for task t at
\* iteration k: leave the loop with HTTPException(500), or write the cursor,
\* pick providers[self.last_provider_index] and call process_request, which
\* returns a StreamingResponse at once (stream) or awaits client.post.
Iterate(t, k, att) ==
  LET n == Len(providers'[t]) IN
  IF ~in_range(k, n)
  THEN /\ pc' = [pc EXCEPT ![t] = "done"]
       /\ result' = [result EXCEPT ![t] = AllProvidersFailed]
       /\ attempts' = [attempts EXCEPT ![t] = att]
       /\ i' = [i EXCEPT ![t] = k]
       /\ lastDone' = t
       /\ UNCHANGED <<last_provider_index, lastWriteN>>
  ELSE LET idx == next_index(req'[t].rr, start_index'[t], k, n)
           \* Python indexing: 0..n-1 from the front, -n..-1 from the back
           p   == providers'[t][IF idx < 0 THEN n + idx + 1 ELSE idx + 1]
       IN  /\ last_provider_index' = idx
           /\ lastWriteN' = n
           /\ i' = [i EXCEPT ![t] = k]
           /\ IF idx \notin (0 - n)..(n - 1)
              THEN /\ pc' = [pc EXCEPT ![t] = "done"]
                   /\ attempts' = [attempts EXCEPT ![t] = att]
                   /\ result' = [result EXCEPT ![t] = IndexError]
                   /\ lastDone' = t
              ELSE IF req'[t].stream
              THEN /\ pc' = [pc EXCEPT ![t] = "relay"]
                   /\ attempts' = [attempts EXCEPT ![t] =
                         Append(att, [idx |-> idx, provider |-> p, outcome |-> "returned"])]
                   /\ result' = [result EXCEPT ![t] = StreamingResponse(p)]
                   /\ lastDone' = t
              ELSE /\ pc' = [pc EXCEPT ![t] = "await"]
                   /\ attempts' = [attempts EXCEPT ![t] =
                         Append(att, [idx |-> idx, provider |-> p, outcome |-> "pending"])]
                   /\ UNCHANGED <<result, lastDone>>

\* POST /v1/chat/completions with a token verify_api_key refuses: the
\* dependency raises before the endpoint body runs
Reject(t, tok) ==
  /\ FreeSlot(t)
  /\ ~verify_api_key(tok)
  /\ pc' = [pc EXCEPT ![t] = "done"]
  /\ result' = [result EXCEPT ![t] = Forbidden]
  /\ token' = [token EXCEPT ![t] = tok]
  /\ UNCHANGED <<body, provider_name, payload, config, last_provider_index, req, providers, start_index, i, attempts,
                 relay, solo, pred, lastDone, lastWriteN>>

\* POST /v1/chat/completions with a valid token: request_model up to its
\* first suspension (or to its end when it never suspends)
RequestModel(t, rq, tok) ==
  /\ FreeSlot(t)
  /\ verify_api_key(tok)
  /\ req' = [req EXCEPT ![t] = rq]
  /\ token' = [token EXCEPT ![t] = tok]
  /\ providers' = [providers EXCEPT ![t] = get_matching_providers(config, rq.model)]
  /\ UNCHANGED <<body, provider_name, payload, config, relay>>
  /\ IF providers'[t] = <<>>
     THEN /\ pc' = [pc EXCEPT ![t] = "done"]
          /\ result' = [result EXCEPT ![t] = NotFound]
          /\ UNCHANGED <<last_provider_index, start_index, i, attempts, solo, pred,
                         lastDone, lastWriteN>>
     ELSE /\ start_index' = [start_index EXCEPT ![t] =
                               start_index_of(rq.rr, last_provider_index)]
          /\ solo' = [u \in Tasks |-> IF u = t THEN Sweeping = {}
                                      ELSE IF u \in Sweeping THEN FALSE ELSE solo[u]]
          /\ pred' = [pred EXCEPT ![t] =
                        IF Sweeping = {} /\ lastDone # 0 /\ solo[lastDone]
                        THEN lastDone ELSE 0]
          /\ Iterate(t, 0, <<>>)

\* client.post of the pending attempt of task t completes with reply; the
\* task runs on to its next suspension or to its end
ProviderReturns(t, reply) ==
  /\ pc[t] = "await"
  /\ LET n      == Len(attempts[t])
         raised == fetch_response_raises(reply)
         att    == [attempts[t] EXCEPT ![n].outcome = IF raised THEN "raised" ELSE "returned"]
     IN  /\ UNCHANGED <<body, provider_name, payload, config, req, token, providers, start_index, relay, solo, pred>>
         /\ IF after_attempt(raised) = "return"
            THEN /\ pc' = [pc EXCEPT ![t] = "done"]
                 /\ result' = [result EXCEPT ![t] = JsonBody(att[n].provider, reply.status)]
                 /\ attempts' = [attempts EXCEPT ![t] = att]
                 /\ lastDone' = t
                 /\ UNCHANGED <<last_provider_index, i, lastWriteN>>
            ELSE Iterate(t, i[t] + 1, att)

\* the server iterates the body of the StreamingResponse: fetch_response_stream
\* opens the connection only now, and relays whatever bytes arrive
StreamRelay(t, reply) ==
  /\ pc[t] = "relay"
  /\ pc' = [pc EXCEPT ![t] = "done"]
  /\ relay' = [relay EXCEPT ![t] =
                 IF ~reply.conn THEN "connection_error"
                 ELSE IF reply.status # 200 THEN "error_body"
                 ELSE "chunks"]
  /\ UNCHANGED <<body, provider_name, payload, config, last_provider_index, req, token, providers, start_index, i,
                 attempts, result, solo, pred, lastDone, lastWriteN>>

Next ==
  \/ \E t \in Tasks, tok \in Tokens : Reject(t, tok)
  \/ \E t \in Tasks, rq \in Requests, tok \in Tokens : RequestModel(t, rq, tok)
  \/ \E t \in Tasks, reply \in Replies : ProviderReturns(t, reply)
  \/ \E t \in Tasks, reply \in Replies : StreamRelay(t, reply)

Spec == Init /\ [][Next]_vars

\* The translation of process_request on its own: a validated request body and
\* the provider it is translated for go in, the payload comes out.
PayloadInit ==
  /\ config = <<>>
  /\ last_provider_index = -1
  /\ pc = [t \in Tasks |-> "idle"]
  /\ req = [t \in Tasks |-> NoRequest]
  /\ token = [t \in Tasks |-> ""]
  /\ providers = [t \in Tasks |-> <<>>]
  /\ start_index = [t \in Tasks |-> 0]
  /\ i = [t \in Tasks |-> 0]
  /\ attempts = [t \in Tasks |-> <<>>]
  /\ result = [t \in Tasks |-> NoResult]
  /\ relay = [t \in Tasks |-> "none"]
  /\ solo = [t \in Tasks |-> FALSE]
  /\ pred = [t \in Tasks |-> 0]
  /\ lastDone = 0
  /\ lastWriteN = 0
  /\ body \in Bodies
  /\ provider_name \in ProviderNames
  /\ payload = NoPayload

\* process_request up to the payload (lines 94-120)
BuildPayload ==
  /\ ~payload.built
  /\ payload' = build_payload(parse_request(body), provider_name)
  /\ UNCHANGED <<config, last_provider_index, pc, req, token, providers, start_index, i,
                 attempts, result, relay, solo, pred, lastDone, lastWriteN,
                 body, provider_name>>

PayloadNext == BuildPayload

PayloadSpec == PayloadInit /\ [][PayloadNext]_vars

\* every outbound call ends: client.post returns or raises, and the relayed
\* stream ends or breaks
FairSpec ==
  /\ Spec
  /\ \A t \in Tasks : WF_vars(\E reply \in Replies : ProviderReturns(t, reply))
  /\ \A t \in Tasks : WF_vars(\E reply \in Replies : StreamRelay(t, reply))

\* ------------------------------------------------- vocabulary of the claims
\* registry positions whose model list contains m
Matches(m) == {k \in 1..Len(config) : m \in config[k].model}

\* the j-th of them in registry order, j = 1..Cardinality(Matches(m))
NthMatch(m, j) ==
  CHOOSE p \in Matches(m) : Cardinality({q \in Matches(m) : q < p}) = j - 1

NumMatching(t) == Cardinality(Matches(req[t].model))

\* the task serves a request that passed verify_api_key
Authenticated(t) == pc[t] # "idle" /\ result[t] # Forbidden

\* index (0-based, within the matching list) the j-th attempt of the sweep of
\* task t is due at: counted from 0, or from the cursor read at its start
OrderIndex(t, j) ==
  IF req[t].rr THEN (start_index[t] + j - 1) % NumMatching(t) ELSE j - 1

\* the j-th attempt of task t went to the provider the order names
InOrder(t, j) ==
  /\ attempts[t][j].idx = OrderIndex(t, j)
  /\ attempts[t][j].provider = NthMatch(req[t].model, OrderIndex(t, j) + 1)

Last(s) == s[Len(s)]

\* t and its predecessor are two consecutive, non-overlapping round-robin
\* sweeps over the same matching set
ConsecutiveRoundRobin(t) ==
  /\ pc[t] # "idle"
  /\ pred[t] # 0
  /\ req[t].rr /\ req[pred[t]].rr
  /\ Matches(req[t].model) = Matches(req[pred[t]].model)
  /\ attempts[t] # <<>> /\ attempts[pred[t]] # <<>>

\* the sweep of t was served by the first provider it tried
ServedAtOnce(t) ==
  /\ Len(attempts[t]) = 1
  /\ attempts[t][1].outcome = "returned"

TypeOK ==
  /\ config \in Registries
  /\ last_provider_index \in -1..MaxProviders
  /\ pc \in [Tasks -> {"idle", "await", "relay", "done"}]
  /\ req \in [Tasks -> Requests]

\* ------------------------------------------------------------------ claims

\* C1: a request whose model is in no provider's model list ends with NotFound
\* (404) in the step that accepts it, whatever the registry, the mode and the
\* cursor: no provider is attempted and last_provider_index keeps its value.
C1_NoMatchIsNotFound ==
  [][\A t \in Tasks :
       (pc[t] = "idle" /\ pc'[t] # "idle" /\ result'[t] # Forbidden
          /\ \A k \in 1..Len(config) : req'[t].model \notin config[k].model)
       => /\ pc'[t] = "done"
          /\ result'[t] = NotFound
          /\ attempts'[t] = <<>>
          /\ last_provider_index' = last_provider_index]_vars

C1_Witness ==
  \E t \in Tasks :
    /\ pc[t] = "done" /\ result[t] = NotFound
    /\ Len(config) = MaxProviders
    /\ last_provider_index >= 0

\* C2: a finished request with n >= 1 matching providers none of whose
\* attempts returned has the result AllProvidersFailed (500), and its sweep
\* made exactly n attempts, the j-th on the provider the traversal order
\* names, so on n distinct providers.
C2_AllFailIsExhaustive ==
  \A t \in Tasks :
    (/\ pc[t] = "done" /\ Authenticated(t)
     /\ NumMatching(t) >= 1
     /\ \A j \in 1..Len(attempts[t]) : attempts[t][j].outcome = "raised")
    => /\ result[t] = AllProvidersFailed
       /\ Len(attempts[t]) = NumMatching(t)
       /\ \A j \in 1..Len(attempts[t]) : InOrder(t, j)
       /\ \A j, k \in 1..Len(attempts[t]) :
            j # k => attempts[t][j].provider # attempts[t][k].provider

C2_Witness ==
  \E t \in Tasks :
    /\ pc[t] = "done" /\ result[t] = AllProvidersFailed
    /\ req[t].rr
    /\ Len(attempts[t]) = MaxProviders
    /\ attempts[t][1].idx # 0

\* C3: when the k-th attempt of a sweep returns, the k-1 attempts before it
\* were made in traversal order and raised, it is the last attempt the sweep
\* makes, the request is over and its result is the response of the provider
\* of the k-th attempt.
C3_FirstSuccessEndsSweep ==
  \A t \in Tasks : \A k \in 1..Len(attempts[t]) :
    attempts[t][k].outcome = "returned"
    => /\ \A j \in 1..(k - 1) : attempts[t][j].outcome = "raised"
       /\ \A j \in 1..k : InOrder(t, j)
       /\ Len(attempts[t]) = k
       /\ pc[t] \in {"relay", "done"}
       /\ result[t].kind \in {"json", "stream"}
       /\ result[t].from = attempts[t][k].provider

C3_Witness ==
  \E t \in Tasks :
    /\ pc[t] = "done" /\ result[t].kind = "json"
    /\ NumMatching(t) = 3
    /\ Len(attempts[t]) = 2
    /\ attempts[t][1].outcome = "raised"
    /\ attempts[t][2].outcome = "returned"

\* C4 (as claimed): a buffered request never has a provider's non-success
\* response as its result; such a response makes the sweep go on.
C4_ErrorStatusFailsOver ==
  \A t \in Tasks : result[t].kind = "json" => result[t].status = 200

\* C5 (as claimed): a streaming request with at least two matching providers
\* whose first provider fails tries the next matching provider.
C5_StreamFailsOver ==
  \A t \in Tasks :
    (/\ pc[t] = "done" /\ req[t].stream
     /\ NumMatching(t) >= 2
     /\ relay[t] \in {"connection_error", "error_body"})
    => Len(attempts[t]) >= 2

\* C6 (as claimed): what an authenticated request ends with is NotFound,
\* AllProvidersFailed or a provider's successful response, never the error of
\* one provider attempt.
C6_OnlyAggregateOutcomes ==
  \A t \in Tasks :
    (pc[t] = "done" /\ Authenticated(t))
    => \/ result[t] \in {NotFound, AllProvidersFailed}
       \/ result[t].kind = "json" /\ result[t].status = 200
       \/ result[t].kind = "stream" /\ relay[t] = "chunks"

\* C7: in sequential mode the j-th attempt of every sweep is on index j-1 of
\* its matching list, whatever the cursor held and whatever other requests
\* write to it meanwhile.
C7_SequentialOrder ==
  \A t \in Tasks :
    (pc[t] # "idle" /\ ~req[t].rr)
    => \A j \in 1..Len(attempts[t]) :
         /\ attempts[t][j].idx = j - 1
         /\ attempts[t][j].provider = NthMatch(req[t].model, j)

C7_Witness ==
  \E t, u \in Tasks :
    /\ t # u
    /\ ~req[t].rr /\ Len(attempts[t]) >= 2 /\ ~solo[t]
    /\ req[u].rr /\ attempts[u] # <<>>
    /\ start_index[u] >= 0

\* C8: of two consecutive non-overlapping round-robin sweeps over the same
\* matching set of size n, the second attempts first the index
\* (index the first attempted last) mod n.
C8_RoundRobinResumes ==
  \A t \in Tasks :
    ConsecutiveRoundRobin(t)
    => attempts[t][1].idx = Last(attempts[pred[t]]).idx % NumMatching(t)

C8_Witness ==
  \E t \in Tasks :
    /\ ConsecutiveRoundRobin(t)
    /\ NumMatching(t) = MaxProviders
    /\ result[pred[t]] = AllProvidersFailed
    /\ attempts[t][1].idx # 0

\* C9 (as claimed): of two consecutive non-overlapping round-robin sweeps over
\* the same matching set of size n >= 2, each served by the first provider it
\* tried, the second is served by another provider than the first.
C9_RoundRobinRotates ==
  \A t \in Tasks :
    (/\ ConsecutiveRoundRobin(t)
     /\ NumMatching(t) >= 2
     /\ ServedAtOnce(t) /\ ServedAtOnce(pred[t]))
    => attempts[t][1].provider # attempts[pred[t]][1].provider

\* C10: last_provider_index is -1 until a sweep writes it, lies in 0..n-1
\* after a write by a sweep over n matching providers, and so always lies in
\* -1..N-1 for a registry of N providers.
C10_CursorRange ==
  /\ lastWriteN = 0 => last_provider_index = -1
  /\ lastWriteN > 0 => last_provider_index \in 0..(lastWriteN - 1)
  /\ last_provider_index \in -1..(Len(config) - 1)

C10_Witness ==
  /\ lastWriteN = 1
  /\ last_provider_index = 0
  /\ Len(config) = MaxProviders
  /\ \E t \in Tasks : pc[t] = "await" /\ Len(providers[t]) = MaxProviders

\* ------------------------------------------- claims on the sweep, continued
\* the step makes task t start a new provider attempt
StartsAttempt(t) == Len(attempts'[t]) = Len(attempts[t]) + 1

\* C11: the attempt number i+1 (i = 0..n-1) of a round-robin sweep that read
\* the cursor value c when it began is on index (c + i) mod n, taken in 0..n-1;
\* a sweep that reads -1 tries n-1 first and then 0, 1, ..., n-2.
C11_RoundRobinOrder ==
  [][\A t \in Tasks :
       (StartsAttempt(t) /\ req'[t].rr)
       => LET n == Cardinality(Matches(req'[t].model))
              c == IF attempts[t] = <<>> THEN last_provider_index ELSE start_index[t]
              a == attempts'[t][Len(attempts'[t])]
          IN  /\ start_index'[t] = c
              /\ a.idx = (c + Len(attempts[t])) % n
              /\ a.idx \in 0..(n - 1)
              /\ a.provider = NthMatch(req'[t].model, a.idx + 1)
              /\ (c = -1 /\ attempts[t] = <<>>) => a.idx = n - 1
              /\ (c = -1 /\ attempts[t] # <<>>) => a.idx = Len(attempts[t]) - 1]_vars

C11_Witness ==
  \E t \in Tasks :
    /\ req[t].rr /\ start_index[t] = -1
    /\ Len(attempts[t]) = 3
    /\ attempts[t][1].idx = 2 /\ attempts[t][2].idx = 0 /\ attempts[t][3].idx = 1

\* C12: a request whose bearer token is not a valid one is answered 403 in the
\* step it arrives: no provider is attempted for it, then or later, and
\* last_provider_index keeps its value.
C12_BadTokenRejected ==
  /\ [](\A t \in Tasks :
          (pc[t] # "idle" /\ token[t] \notin {"sk-user1"})
          => pc[t] = "done" /\ result[t] = Forbidden /\ attempts[t] = <<>>)
  /\ [][\A t \in Tasks :
          (pc[t] = "idle" /\ pc'[t] # "idle" /\ token'[t] \notin {"sk-user1"})
          => /\ last_provider_index' = last_provider_index
             /\ attempts' = attempts]_vars

C12_Witness ==
  \E t, u \in Tasks :
    /\ pc[t] = "done" /\ token[t] = "sk-other" /\ result[t] = Forbidden
    /\ pc[u] = "await" /\ last_provider_index >= 0

\* C16: in both modes the step that starts an attempt leaves in
\* last_provider_index the index, within the request's matching list, of the
\* provider it attempts; so right after a sequential sweep that no other sweep
\* overlapped the cursor is k when the attempt on index k returned, and n-1
\* when all n attempts raised.
C16_CursorTracksAttempt ==
  /\ [][\A t \in Tasks :
          StartsAttempt(t)
          => LET a == attempts'[t][Len(attempts'[t])]
             IN  /\ last_provider_index' = a.idx
                 /\ a.provider = NthMatch(req'[t].model, last_provider_index' + 1)]_vars
  /\ [](\A t \in Tasks :
          (/\ lastDone = t /\ solo[t] /\ Sweeping = {}
           /\ ~req[t].rr /\ attempts[t] # <<>>)
          => /\ result[t].kind \in {"json", "stream"}
                  => last_provider_index = Len(attempts[t]) - 1
             /\ result[t] = AllProvidersFailed
                  => last_provider_index = NumMatching(t) - 1)

C16_Witness ==
  \E t \in Tasks :
    /\ lastDone = t /\ solo[t] /\ Sweeping = {}
    /\ ~req[t].rr /\ req[t].stream = FALSE
    /\ result[t].kind = "json"
    /\ Len(attempts[t]) = 2 /\ NumMatching(t) = 3
    /\ last_provider_index = 1

\* C17: a sweep has at most one attempt in flight: only its latest attempt
\* can be pending, and that exactly while the task waits in client.post; every
\* attempt before the latest one has ended, and ended by raising.
C17_OneAttemptAtATime ==
  \A t \in Tasks :
    /\ \A j \in 1..(Len(attempts[t]) - 1) : attempts[t][j].outcome = "raised"
    /\ Cardinality({j \in 1..Len(attempts[t]) : attempts[t][j].outcome = "pending"}) <= 1
    /\ pc[t] = "await"
         <=> (attempts[t] # <<>> /\ Last(attempts[t]).outcome = "pending")

C17_Witness ==
  \E t, u \in Tasks :
    /\ t # u
    /\ pc[t] = "await" /\ Len(attempts[t]) = 3
    /\ pc[u] = "await" /\ Len(attempts[u]) = 2

\* C19: whatever other requests write to the cursor while a request waits,
\* its attempts go to pairwise distinct providers of its own matching list,
\* the j-th to index (start + j - 1) mod n in round-robin mode and j - 1 in
\* sequential mode, start being the cursor value its sweep read when it began.
C19_OrderFixedAtStart ==
  \A t \in Tasks :
    /\ \A j \in 1..Len(attempts[t]) :
         /\ InOrder(t, j)
         /\ attempts[t][j].provider \in Matches(req[t].model)
    /\ \A j, k \in 1..Len(attempts[t]) :
         j # k => attempts[t][j].provider # attempts[t][k].provider

C19_Witness ==
  \E t, u \in Tasks :
    /\ t # u
    /\ req[t].rr /\ ~solo[t]
    /\ Len(attempts[t]) = 3
    /\ pc[u] = "await" /\ req[u].rr
    /\ last_provider_index # Last(attempts[t]).idx
    /\ start_index[u] # start_index[t]

\* C20: the index a sweep reads back from the cursor to pick its provider is in
\* 0..n-1 for its own matching list of n providers, so the provider picked is
\* one of that list and providers[...] never raises, for any interleaving of
\* requests with lists of different sizes and in different modes.
C20_IndexInRange ==
  \A t \in Tasks :
    /\ result[t] # IndexError
    /\ \A j \in 1..Len(attempts[t]) :
         /\ attempts[t][j].idx \in 0..(NumMatching(t) - 1)
         /\ attempts[t][j].provider = NthMatch(req[t].model, attempts[t][j].idx + 1)

C20_Witness ==
  \E t, u \in Tasks :
    /\ pc[t] = "await" /\ pc[u] = "await"
    /\ NumMatching(t) = 1 /\ NumMatching(u) = 3
    /\ req[t].rr /\ ~req[u].rr
    /\ start_index[t] = 2

\* C18: if every provider call ends, time and again no request is left waiting,
\* so each request that has arrived gets its outcome (a response, NotFound or
\* AllProvidersFailed; a task never leaves "done"), and it does so within n
\* attempts, n being the number of its matching providers: no provider is
\* attempted twice and no index is visited a second time.
C18_SweepTerminates ==
  /\ []<>(\A t \in Tasks : pc[t] \in {"idle", "done"})
  /\ [](\A t \in Tasks :
          /\ Len(attempts[t]) <= NumMatching(t)
          /\ \A j, k \in 1..Len(attempts[t]) :
               j # k => /\ attempts[t][j].idx # attempts[t][k].idx
                        /\ attempts[t][j].provider # attempts[t][k].provider
          /\ pc[t] = "done" => result[t] # NoResult)

C18_Witness ==
  \E t \in Tasks :
    /\ pc[t] = "done" /\ result[t].kind = "json"
    /\ req[t].rr /\ start_index[t] >= 0
    /\ Len(attempts[t]) = NumMatching(t)
    /\ NumMatching(t) = MaxProviders

\* ---------------------------------------------------- claims on the payload
\* the member arrived with a value
Supplied(raw) == raw.kind = "value"

\* C13: the payload built for a provider named "anthropic" has max_tokens =
\* 1000 and has neither logprobs nor top_logprobs, whatever the request gave.
C13_AnthropicPayload ==
  (payload.built /\ provider_name = "anthropic")
  => /\ payload.max_tokens = Some(1000)
     /\ ~payload.logprobs.some
     /\ ~payload.top_logprobs.some

C13_Witness ==
  /\ payload.built /\ provider_name = "anthropic"
  /\ body.logprobs = [kind |-> "value", val |-> TRUE]
  /\ body.top_logprobs = [kind |-> "value", val |-> 5]

\* C14 (as claimed): the payload built for a provider not named "anthropic"
\* has logprobs exactly when the request supplied logprobs, has top_logprobs
\* exactly when the request supplied top_logprobs, and never has max_tokens.
C14_OtherPayload ==
  (payload.built /\ provider_name # "anthropic")
  => /\ payload.logprobs.some <=> Supplied(body.logprobs)
     /\ payload.top_logprobs.some <=> Supplied(body.top_logprobs)
     /\ ~payload.max_tokens.some

\* the flattened text of the first k parts: the texts of the parts of type
\* "text" among them, each but the first preceded by one space
RECURSIVE FlatUpTo(_, _)
FlatUpTo(parts, k) ==
  IF k = 0 THEN ""
  ELSE IF parts[k].type # "text" THEN FlatUpTo(parts, k - 1)
  ELSE IF \E j \in 1..(k - 1) : parts[j].type = "text"
       THEN FlatUpTo(parts, k - 1) \o " " \o parts[k].text
       ELSE parts[k].text

\* C15: the translated messages are as many as the request's, in the same
\* order and with the same roles; a string content is kept as it is and a
\* list content becomes the texts of its parts of type "text", in order,
\* joined by one space (the empty string when there is none).
C15_MessagesFlattened ==
  payload.built
  => /\ Len(payload.messages) = Len(body.messages)
     /\ \A k \in 1..Len(body.messages) :
          /\ payload.messages[k].role = body.messages[k].role
          /\ payload.messages[k].content =
               IF body.messages[k].content.kind = "str"
               THEN body.messages[k].content.str
               ELSE FlatUpTo(body.messages[k].content.parts,
                             Len(body.messages[k].content.parts))

C15_Witness ==
  /\ payload.built
  /\ Len(body.messages) = 2
  /\ body.messages[1] = [role |-> "user", content |-> StrContent("hi")]
  /\ body.messages[2].role = "assistant"
  /\ body.messages[2].content.parts =
       <<[type |-> "text", text |-> "a"], [type |-> "image", text |-> "x"],
         [type |-> "text", text |-> "b"]>>
  /\ payload.messages[1].content = "hi"
  /\ payload.messages[2].content = "a b"
====
